---- MODULE Spec2Model ----
(***************************************************************************)
(* Model of src/src/prt_otp_analysis/traffic_overlay.py: the PennDOT       *)
(* traffic overlay (segment parsing, polyline densification, the spatial   *)
(* index, route matching and per-route aggregation).                       *)
(*                                                                         *)
(* Numbers.  The program computes in floating point.  The model computes   *)
(* the same expressions in exact rational arithmetic: a number is a pair   *)
(* <<n, d>> in lowest terms with d > 0.  Rounding of IEEE doubles is not   *)
(* modelled.                                                               *)
(*                                                                         *)
(* Units.  Latitudes and longitudes are counted in grid units of           *)
(* 4/111320 degree, so that METERS_PER_DEG_LAT (111320 m per degree)       *)
(* is 4 m per unit of latitude and METERS_PER_DEG_LON                      *)
(* (111320*cos(40.44 deg) = 84734 m per degree) is 3 m per unit of         *)
(* longitude (3.04 rounded).  Meters stay meters.                          *)
(***************************************************************************)
EXTENDS Integers, Sequences, FiniteSets, TLC

VARIABLES
    d_points,     \* densify_segment: the argument `points`
    d_spacing,    \* densify_segment: the argument `spacing_m`
    d_dense,      \* the polyline returned by densify_segment(points, spacing_m)
    d_dense2,     \* the polyline returned by densifying d_dense again
    d_pc,         \* "input" | "dense" | "redense"
    features,     \* main: the features returned by load_penndot_data()
    route_points, \* main: the dict returned by load_gtfs_routes(), route id -> polyline
    segments,     \* main: the list returned by parse_penndot_segments(features)
    skipped,      \* parse_penndot_segments: the local count `skipped`
    coords,       \* build_penndot_kdtree: the indexed points, in local meters
    seg_indices,  \* build_penndot_kdtree: the segment index of each indexed point
    results,      \* match_routes: the list `results`
    indices_log,  \* match_routes: `indices` of each route matched so far
    matched_log,  \* match_routes: `matched_seg_set` of each route matched so far
    pc,           \* main: "load" | "fetching" | "start" | "parsed" | "gtfs" |
                  \*       "routes" | "indexed" | "matched" | "written" | "raised" |
                  \*       "idle"
    db,           \* the database file DB_PATH: table name -> its rows, or NoTable
    run,          \* how many times main has been started
    server,       \* the ArcGIS service: its records and its maxRecordCount
    fault,        \* what went wrong with a request so far: "none" | "network" | "api"
    offset,       \* fetch_penndot_pages: the local `offset`
    all_features, \* fetch_penndot_pages: the local `all_features`
    cache_file,   \* CACHE_FILE: Absent, or Val(the list stored in it)
    console,      \* what the run has printed: the branch of load_penndot_data
                  \* taken, and the traceback of an uncaught exception
    trips,        \* the rows of GTFS/trips.txt, in file order
    shapes        \* the rows of GTFS/shapes.txt, in file order

densifyVars == <<d_points, d_spacing, d_dense, d_dense2, d_pc>>
inputVars   == <<features, route_points>>
indexVars   == <<segments, skipped, coords, seg_indices>>
matchVars   == <<results, indices_log, matched_log>>
overlayVars == <<inputVars, indexVars, matchVars, pc>>
fetchVars   == <<server, fault, offset, all_features, cache_file, console>>
gtfsVars    == <<trips, shapes>>
ioVars      == <<db, run, fetchVars, gtfsVars>>
vars == <<densifyVars, overlayVars, ioVars>>

----------------------------------------------------------------------------
(* Exact rational arithmetic (the program's float arithmetic).             *)

Abs(x) == IF x < 0 THEN -x ELSE x

RECURSIVE GCD(_, _)
GCD(a, b) == IF b = 0 THEN a ELSE GCD(b, a % b)

Rat(n, d) ==
    LET g == GCD(Abs(n), Abs(d))
        s == IF d < 0 THEN -1 ELSE 1
    IN  <<(s * n) \div g, (s * d) \div g>>

FromInt(i) == <<i, 1>>
RatAdd(p, q) == Rat(p[1] * q[2] + q[1] * p[2], p[2] * q[2])
RatSub(p, q) == Rat(p[1] * q[2] - q[1] * p[2], p[2] * q[2])
RatMul(p, q) == Rat(p[1] * q[1], p[2] * q[2])
RatDiv(p, q) == Rat(p[1] * q[2], p[2] * q[1])
RatLT(p, q)  == p[1] * q[2] < q[1] * p[2]
RatLE(p, q)  == p[1] * q[2] <= q[1] * p[2]

----------------------------------------------------------------------------
(* Projection and matching parameters.                                     *)

METERS_PER_DEG_LAT == 4
METERS_PER_DEG_LON == 3
BUFFER_METERS      == 30
DENSIFY_SPACING_M  == 15

\* to_local_meters(lat, lon): (lat * METERS_PER_DEG_LAT, lon * METERS_PER_DEG_LON)
to_local_meters(lat, lon) ==
    <<RatMul(lat, FromInt(METERS_PER_DEG_LAT)), RatMul(lon, FromInt(METERS_PER_DEG_LON))>>

\* math.hypot(dx, dy), kept as its square dx^2 + dy^2: the program uses the
\* distance only in comparisons with a non-negative length and in
\* int(dist / spacing_m), and both are decided by the squares.
Hypot2(dx, dy) == RatAdd(RatMul(dx, dx), RatMul(dy, dy))

\* dist^2 between two lat/lon points after projection (lines 214-216).
PlanarDist2(p, q) ==
    LET m0 == to_local_meters(p[1], p[2])
        m1 == to_local_meters(q[1], q[2])
    IN  Hypot2(RatSub(m1[1], m0[1]), RatSub(m1[2], m0[2]))

----------------------------------------------------------------------------
(* densify_segment                                                         *)

\* dist > spacing_m, for spacing_m >= 0
ExceedsSpacing(dist2, spacing_m) == RatLT(FromInt(spacing_m * spacing_m), dist2)

\* int(dist / spacing_m): the largest n with n * spacing_m <= dist
IntQuotient(dist2, spacing_m) ==
    LET s2 == spacing_m * spacing_m
        hi == dist2[1] \div (s2 * dist2[2]) + 1
    IN  CHOOSE n \in 0..hi :
            /\ n * n * s2 * dist2[2] <= dist2[1]
            /\ dist2[1] < (n + 1) * (n + 1) * s2 * dist2[2]

\* Mutant: the number of interpolated points rounded up, for any edge of
\* positive length.
n_interp_ceil(dist2, spacing_m) ==
    IF dist2[1] = 0 THEN 0
    ELSE LET n == IntQuotient(dist2, spacing_m)
         IN  IF n * n * spacing_m * spacing_m * dist2[2] = dist2[1] THEN n ELSE n + 1

\* Mutant: dist >= spacing_m in place of dist > spacing_m.
n_interp_ge(dist2, spacing_m) ==
    IF RatLE(FromInt(spacing_m * spacing_m), dist2)
    THEN IntQuotient(dist2, spacing_m)
    ELSE 0

\* Mutant: one interpolated point too few.
n_interp_short(dist2, spacing_m) ==
    IF ExceedsSpacing(dist2, spacing_m)
    THEN IntQuotient(dist2, spacing_m) - 1
    ELSE 0

\* Lines 218-219: the number of points interpolated on an edge of length dist.
n_interp(dist2, spacing_m) ==
    IF ExceedsSpacing(dist2, spacing_m)
    THEN IntQuotient(dist2, spacing_m)
    ELSE 0

\* Lines 221-223: the point at frac = j / (n + 1) between p0 and p1.
Interpolate(p0, p1, j, n) ==
    LET frac == Rat(j, n + 1)
    IN  <<RatAdd(p0[1], RatMul(frac, RatSub(p1[1], p0[1]))),
          RatAdd(p0[2], RatMul(frac, RatSub(p1[2], p0[2])))>>

\* Mutant: range(0, n_interp) in place of range(1, n_interp + 1).
InterpolatedFromZero(p0, p1, spacing_m) ==
    LET n == n_interp(PlanarDist2(p0, p1), spacing_m)
    IN  [j \in 1..n |-> Interpolate(p0, p1, j - 1, n)]

\* Lines 212-224: the points appended after points[i] for the edge to points[i+1].
Interpolated(p0, p1, spacing_m) ==
    LET n == n_interp(PlanarDist2(p0, p1), spacing_m)
    IN  [j \in 1..n |-> Interpolate(p0, p1, j, n)]

\* Lines 208-224: the loop over i, from index i on.
RECURSIVE DensifyFrom(_, _, _)
DensifyFrom(points, spacing_m, i) ==
    IF i > Len(points) THEN <<>>
    ELSE <<points[i]>>
         \o (IF i + 1 <= Len(points)
             THEN Interpolated(points[i], points[i + 1], spacing_m)
             ELSE <<>>)
         \o DensifyFrom(points, spacing_m, i + 1)

\* Mutant: the polyline is returned as it is, whatever the spacing.
densify_segment_raw(points, spacing_m) == points

densify_segment(points, spacing_m) == DensifyFrom(points, spacing_m, 1)

----------------------------------------------------------------------------
(* Python and JSON values.  A dict is a record that has every key the      *)
(* program asks for; a key the dict does not hold has the value Absent.    *)

Absent == <<"absent">>     \* the key is not in the dict
None   == <<"None">>       \* JSON null, Python None
Val(x) == <<"val", x>>     \* any other value

\* d.get(k, default)
DictGet(d, k, default) == IF d[k] = Absent THEN default ELSE d[k]

\* Sum of f[x] over the finite set S
RECURSIVE SumOver(_, _)
SumOver(S, f) ==
    IF S = {} THEN 0
    ELSE LET x == CHOOSE y \in S : TRUE
         IN  f[x] + SumOver(S \ {x}, f)

\* Concatenation of a sequence of sequences
RECURSIVE Flatten(_)
Flatten(ss) == IF ss = <<>> THEN <<>> ELSE Head(ss) \o Flatten(Tail(ss))

----------------------------------------------------------------------------
(* parse_penndot_segments                                                  *)

\* web_mercator_to_wgs84(x, y) returns (lat, lon): the latitude from y, the
\* longitude from x.  Web Mercator coordinates are counted from a corner of
\* the study area in units of 64 Mercator meters, 48 m on the ground at
\* Pittsburgh's latitude: 12 grid units of latitude, 16 of longitude (the
\* inverse projection, linear at city scale).
web_mercator_to_wgs84(x, y) == <<FromInt(12 * y), FromInt(16 * x)>>

\* The empty dict {}, over the keys the program asks a feature, its
\* attributes and its geometry for.
EmptyFeature == [k \in {"attributes", "geometry"} |-> Absent]
EmptyAttrs   == [k \in {"CUR_AADT", "TRK_PCT", "SEG_LNGTH_FEET", "OBJECTID", "ST_RT_NO"}
                    |-> Absent]
EmptyGeom    == [k \in {"paths"} |-> Absent]

\* Lines 121-126: all points of all paths, in order, as (lat, lon)
WgsPoints(paths) ==
    Flatten([i \in 1..Len(paths) |->
                [j \in 1..Len(paths[i]) |->
                    web_mercator_to_wgs84(paths[i][j][1], paths[i][j][2])]])

\* Line 132: attrs.get("SEG_LNGTH_FEET", 0.0) or 0.0
LengthFt(attrs) ==
    LET v == DictGet(attrs, "SEG_LNGTH_FEET", Val(0))
    IN  IF v = None \/ v[2] = 0 THEN 0 ELSE v[2]

\* Mutant: only a missing AADT is rejected.
InvalidAadtNoneOnly(aadt) == aadt = None

\* Line 114: aadt is None or aadt <= 0
InvalidAadt(aadt) == aadt = None \/ aadt[2] <= 0

\* Lines 109-135, one feature: <<"raise">> (None has no .get), <<"skip">>,
\* or <<"seg", the segment dict>>.
ParseFeature(feat) ==
    LET attrs == DictGet(feat, "attributes", Val(EmptyAttrs))
        geom  == DictGet(feat, "geometry", Val(EmptyGeom))
    IN  IF attrs = None \/ geom = None THEN <<"raise">>
        ELSE LET paths == DictGet(geom[2], "paths", Val(<<>>))
                 aadt  == DictGet(attrs[2], "CUR_AADT", None)
             IN  IF InvalidAadt(aadt) THEN <<"skip">>
                 ELSE IF paths = None \/ paths[2] = <<>> THEN <<"skip">>
                 ELSE <<"seg",
                        [object_id |-> DictGet(attrs[2], "OBJECTID", None),
                         aadt      |-> aadt[2],
                         truck_pct |-> DictGet(attrs[2], "TRK_PCT", None),
                         length_ft |-> LengthFt(attrs[2]),
                         route_no  |-> DictGet(attrs[2], "ST_RT_NO", None),
                         points    |-> WgsPoints(paths[2])]>>

\* Lines 106-140: the loop over features, from feature i on, with the
\* segments and the skip count so far.
RECURSIVE ParseFrom(_, _, _, _)
ParseFrom(feats, i, segs, nskip) ==
    IF i > Len(feats) THEN [raised |-> FALSE, segments |-> segs, skipped |-> nskip]
    ELSE LET r == ParseFeature(feats[i])
         IN  CASE r[1] = "raise" -> [raised |-> TRUE, segments |-> segs, skipped |-> nskip]
               [] r[1] = "skip"  -> ParseFrom(feats, i + 1, segs, nskip + 1)
               [] r[1] = "seg"   -> ParseFrom(feats, i + 1, Append(segs, r[2]), nskip)

parse_penndot_segments(feats) == ParseFrom(feats, 1, <<>>, 0)

----------------------------------------------------------------------------
(* build_penndot_kdtree.  The list `segments` is indexed from 0 in the     *)
(* program: segment index i is segs[i + 1] here.                           *)

\* Mutant: the raw points of the segment are indexed, not the densified ones.
SegmentCoordsRaw(seg) ==
    [k \in 1..Len(seg.points) |-> to_local_meters(seg.points[k][1], seg.points[k][2])]

\* Lines 241-244 for one segment: its densified points in local meters
SegmentCoords(seg) ==
    LET dense == densify_segment(seg.points, DENSIFY_SPACING_M)
    IN  [k \in 1..Len(dense) |-> to_local_meters(dense[k][1], dense[k][2])]

\* Lines 236-247: (coords, seg_indices)
RECURSIVE BuildFrom(_, _)
BuildFrom(segs, seg_idx) ==
    IF seg_idx >= Len(segs) THEN [coords |-> <<>>, seg_indices |-> <<>>]
    ELSE LET cs   == SegmentCoords(segs[seg_idx + 1])
             rest == BuildFrom(segs, seg_idx + 1)
         IN  [coords      |-> cs \o rest.coords,
              seg_indices |-> [k \in 1..Len(cs) |-> seg_idx] \o rest.seg_indices]

build_penndot_kdtree(segs) == BuildFrom(segs, 0)

\* tree.query_ball_point(x, r) of scipy.spatial.KDTree over the points cs: the
\* positions of the points of cs at distance <= r from x.
query_ball_point(cs, x, r) ==
    {k \in 1..Len(cs) :
        RatLE(Hypot2(RatSub(cs[k][1], x[1]), RatSub(cs[k][2], x[2])), FromInt(r * r))}

----------------------------------------------------------------------------
(* match_routes                                                            *)

\* sorted(route_points.items()): the route ids in ascending order
RECURSIVE SortedIds(_)
SortedIds(ids) ==
    IF ids = {} THEN <<>>
    ELSE LET lo == CHOOSE a \in ids : \A b \in ids : a <= b
         IN  <<lo>> \o SortedIds(ids \ {lo})

\* Mutant: the route points are passed to the tree as (lat, lon), unprojected.
route_m_unprojected(pts) == pts

\* Line 265: the route points in local meters
route_m(pts) == [i \in 1..Len(pts) |-> to_local_meters(pts[i][1], pts[i][2])]

\* Line 269: one list of index positions per route point
QueryRoute(pts, cs) ==
    LET rm == route_m(pts)
    IN  [i \in 1..Len(rm) |-> query_ball_point(cs, rm[i], BUFFER_METERS)]

\* Mutant: only the nearest (here: the first) returned point of a route point counts.
MatchedSegSetNearest(indices, sidx) ==
    {sidx[CHOOSE k \in indices[i] : \A k2 \in indices[i] : k <= k2] :
        i \in {i \in 1..Len(indices) : indices[i] # {}}}

\* Mutant: matched_seg_set is not emptied between routes.
MatchedSegSetCumulative(indices, sidx) ==
    UNION {{sidx[k] : k \in indices[i]} : i \in 1..Len(indices)}
        \cup UNION {matched_log[i] : i \in 1..Len(matched_log)}

\* Lines 272-278: matched_seg_set
MatchedSegSet(indices, sidx) ==
    UNION {{sidx[k] : k \in indices[i]} : i \in 1..Len(indices)}

\* Mutant: every returned index point is counted, not every hitting route point.
NMatchedPtsAll(indices) ==
    SumOver(1..Len(indices), [i \in 1..Len(indices) |-> Cardinality(indices[i])])

\* Lines 273-276: n_matched_pts
NMatchedPts(indices) == Cardinality({i \in 1..Len(indices) : indices[i] # {}})

\* Mutant: floor division, n_matched_pts // n_route_pts.
MatchRateFloor(n_matched_pts, n_route_pts) ==
    IF n_route_pts > 0 THEN FromInt(n_matched_pts \div n_route_pts) ELSE FromInt(0)

\* Line 280
MatchRate(n_matched_pts, n_route_pts) ==
    IF n_route_pts > 0 THEN Rat(n_matched_pts, n_route_pts) ELSE FromInt(0)

\* numpy's true division of floats: 0/0 is nan, no exception
NaN == <<0, 0>>
NpDivide(a, b) == IF b[1] = 0 THEN NaN ELSE RatDiv(a, b)

\* The aadt values of the matched segments in ascending order (np.sort)
RECURSIVE SortedAadts(_, _)
SortedAadts(segs, matched) ==
    IF matched = {} THEN <<>>
    ELSE LET lo == CHOOSE i \in matched :
                       \A j \in matched : segs[i + 1].aadt <= segs[j + 1].aadt
         IN  <<segs[lo + 1].aadt>> \o SortedAadts(segs, matched \ {lo})

\* Mutant: the lower of the two middle values of an even number of values.
MedianLower(a) == FromInt(a[(Len(a) + 1) \div 2])

\* np.median
Median(a) ==
    LET n == Len(a)
    IN  IF n % 2 = 1 THEN FromInt(a[(n + 1) \div 2])
        ELSE Rat(a[n \div 2] + a[n \div 2 + 1], 2)

\* np.percentile(a, 90), linear interpolation at position 0.9 * (n - 1)
Percentile90(a) ==
    LET n == Len(a)
        k == (9 * (n - 1)) \div 10
        f == Rat((9 * (n - 1)) % 10, 10)
    IN  IF k + 2 > n THEN FromInt(a[k + 1])
        ELSE RatAdd(FromInt(a[k + 1]), RatMul(f, FromInt(a[k + 2] - a[k + 1])))

\* Mutant: the weighted sum divided by the number of matched segments.
WeightedAadtByCount(segs, matched) ==
    Rat(SumOver(matched, [i \in matched |-> segs[i + 1].aadt * segs[i + 1].length_ft]),
        Cardinality(matched))

\* Mutant: no fallback, the unweighted mean is never taken.
WeightedAadtNoFallback(segs, matched) ==
    NpDivide(FromInt(SumOver(matched,
                 [i \in matched |-> segs[i + 1].aadt * segs[i + 1].length_ft])),
             FromInt(SumOver(matched, [i \in matched |-> segs[i + 1].length_ft])))

\* Lines 302-306: weighted_aadt
WeightedAadt(segs, matched) ==
    LET total_length == SumOver(matched, [i \in matched |-> segs[i + 1].length_ft])
    IN  IF total_length > 0
        THEN Rat(SumOver(matched,
                     [i \in matched |-> segs[i + 1].aadt * segs[i + 1].length_ft]),
                 total_length)
        ELSE Rat(SumOver(matched, [i \in matched |-> segs[i + 1].aadt]),
                 Cardinality(matched))

\* Lines 308-318: avg_truck_pct
AvgTruck(segs, matched) ==
    LET total_length == SumOver(matched, [i \in matched |-> segs[i + 1].length_ft])
        truck == {i \in matched : segs[i + 1].truck_pct # None}
    IN  IF truck # {} /\ total_length > 0
        THEN Val(NpDivide(
                 FromInt(SumOver(truck,
                     [i \in truck |-> segs[i + 1].truck_pct[2] * segs[i + 1].length_ft])),
                 FromInt(SumOver(truck, [i \in truck |-> segs[i + 1].length_ft]))))
        ELSE IF truck # {}
        THEN Val(Rat(SumOver(truck, [i \in truck |-> segs[i + 1].truck_pct[2]]),
                     Cardinality(truck)))
        ELSE None

\* Mutant: avg_truck_pct of an unmatched route defaults to 0.
UnmatchedResultZeroTruck(route_id, n_route_pts, match_rate) ==
    [route_id        |-> route_id,
     n_segments      |-> 0,
     total_length_ft |-> 0,
     weighted_aadt   |-> FromInt(0),
     max_aadt        |-> 0,
     median_aadt     |-> FromInt(0),
     p90_aadt        |-> FromInt(0),
     avg_truck_pct   |-> Val(FromInt(0)),
     n_route_points  |-> n_route_pts,
     match_rate      |-> match_rate]

\* Lines 283-294: the record of a route with no matched segment
UnmatchedResult(route_id, n_route_pts, match_rate) ==
    [route_id        |-> route_id,
     n_segments      |-> 0,
     total_length_ft |-> 0,
     weighted_aadt   |-> FromInt(0),
     max_aadt        |-> 0,
     median_aadt     |-> FromInt(0),
     p90_aadt        |-> FromInt(0),
     avg_truck_pct   |-> None,
     n_route_points  |-> n_route_pts,
     match_rate      |-> match_rate]

\* Lines 298-331: the record of a route with matched segments
MatchedResult(route_id, n_route_pts, match_rate, segs, matched) ==
    LET aadts == SortedAadts(segs, matched)
    IN  [route_id        |-> route_id,
         n_segments      |-> Cardinality(matched),
         total_length_ft |-> SumOver(matched, [i \in matched |-> segs[i + 1].length_ft]),
         weighted_aadt   |-> WeightedAadt(segs, matched),
         max_aadt        |-> aadts[Len(aadts)],
         median_aadt     |-> Median(aadts),
         p90_aadt        |-> Percentile90(aadts),
         avg_truck_pct   |-> AvgTruck(segs, matched),
         n_route_points  |-> n_route_pts,
         match_rate      |-> match_rate]

\* Lines 264-331: one pass of the loop of match_routes, for one route
MatchOne(route_id, pts, segs, cs, sidx) ==
    LET indices     == QueryRoute(pts, cs)
        matched     == MatchedSegSet(indices, sidx)
        n_route_pts == Len(pts)
        match_rate  == MatchRate(NMatchedPts(indices), n_route_pts)
    IN  [indices |-> indices,
         matched |-> matched,
         result  |-> IF matched = {}
                     THEN UnmatchedResult(route_id, n_route_pts, match_rate)
                     ELSE MatchedResult(route_id, n_route_pts, match_rate, segs, matched)]

----------------------------------------------------------------------------
(* fetch_penndot_pages and load_penndot_data.  Records are counted in      *)
(* blocks of 500: page_size (1000 records) is 2.                           *)

page_size == 2

\* A service that is not asked anything.
NoServer == [records |-> <<>>, max_record_count |-> page_size]

\* s[from + 1 .. to], for 0 <= from
Slice(s, from, to) ==
    IF to <= from THEN <<>> ELSE [k \in 1..(to - from) |-> s[from + k]]

Min(a, b) == IF a <= b THEN a ELSE b

\* The JSON the service answers to resultOffset = off, resultRecordCount =
\* count: at most count and at most maxRecordCount records from off on, and
\* exceededTransferLimit if records remain after them.
QueryResponse(srv, off, count) ==
    LET n    == Min(count, srv.max_record_count)
        last == Min(off + n, Len(srv.records))
    IN  [features              |-> Val(Slice(srv.records, off, last)),
         exceededTransferLimit |-> IF last < Len(srv.records) THEN Val(TRUE) ELSE Absent]

\* The JSON of an error of the service (HTTP status 200): {"error": {...}}
ErrorResponse == [features |-> Absent, exceededTransferLimit |-> Absent]

\* Mutant: the cache file is never found.
CacheNeverExists(file) == FALSE

\* Line 85: CACHE_FILE.exists()
CacheExists(file) == file # Absent

\* Lines 85-93: the cache file is read if it exists; otherwise the fetch begins
\* (lines 49-51).
LoadPenndotData ==
    /\ pc = "load"
    /\ IF CacheExists(cache_file)
       THEN /\ features' = cache_file[2]
            /\ console' = Append(console, "Loading cached data")
            /\ pc' = "start"
            /\ UNCHANGED <<offset, all_features>>
       ELSE /\ offset' = 0
            /\ all_features' = <<>>
            /\ console' = Append(console, "Fetching from PennDOT ArcGIS API...")
            /\ pc' = "fetching"
            /\ UNCHANGED features
    /\ UNCHANGED <<route_points, indexVars, matchVars, densifyVars, db, run,
                   server, fault, cache_file, gtfsVars>>

\* Lines 53-80 and 95-101: one pass of the loop of fetch_penndot_pages.  The
\* request is answered, fails with an exception of urlopen (nothing catches
\* it), or is answered with the JSON of an error.  When the loop ends,
\* load_penndot_data writes the list to the cache file and returns it.
FetchPage ==
    /\ pc = "fetching"
    /\ \E outcome \in {"ok", "network", "api"} :
          IF outcome = "network"
          THEN /\ fault' = "network"
               /\ console' = Append(console, "Traceback: urllib.error.URLError")
               /\ pc' = "raised"
               /\ UNCHANGED <<features, offset, all_features, cache_file>>
          ELSE LET data == IF outcome = "api" THEN ErrorResponse
                           ELSE QueryResponse(server, offset, page_size)
                   page == DictGet(data, "features", Val(<<>>))[2]
                   all  == all_features \o page
                   more == DictGet(data, "exceededTransferLimit", Val(FALSE))[2]
               IN  /\ fault' = IF outcome = "api" THEN "api" ELSE fault
                   /\ all_features' = all
                   /\ IF page # <<>> /\ more
                      THEN /\ offset' = offset + page_size
                           /\ UNCHANGED <<features, cache_file, pc>>
                      ELSE /\ features' = all
                           /\ cache_file' = Val(all)
                           /\ pc' = "start"
                           /\ UNCHANGED offset
                   /\ UNCHANGED console
    /\ UNCHANGED <<route_points, indexVars, matchVars, densifyVars, db, run, server,
                   gtfsVars>>

----------------------------------------------------------------------------
(* main: load, parse, index, match.                                        *)

\* Lines 394-398: parse the features.  If the parser raises nothing is
\* returned; min() of no AADT value raises.
ParseSegments ==
    /\ pc = "start"
    /\ LET p == parse_penndot_segments(features)
       IN  IF p.raised
           THEN /\ pc' = "raised"
                /\ UNCHANGED <<segments, skipped>>
           ELSE /\ segments' = p.segments
                /\ skipped' = p.skipped
                /\ pc' = IF p.segments = <<>> THEN "raised" ELSE "parsed"
    /\ UNCHANGED <<inputVars, coords, seg_indices, matchVars, densifyVars, ioVars>>

\* Line 406, after the segments were parsed and, when the GTFS files are
\* read in this run, after load_gtfs_routes.  KDTree(coords) raises ValueError for an array with no point in
\* it (line 250): nothing is returned.
BuildKDTree ==
    /\ pc \in {"parsed", "routes"}
    /\ LET t == build_penndot_kdtree(segments)
       IN  IF t.coords = <<>>
           THEN /\ pc' = "raised"
                /\ UNCHANGED <<coords, seg_indices>>
           ELSE /\ coords' = t.coords
                /\ seg_indices' = t.seg_indices
                /\ pc' = "indexed"
    /\ UNCHANGED <<inputVars, segments, skipped, matchVars, densifyVars, ioVars>>

\* Line 409: one pass of the loop of match_routes; after the last route the
\* function returns.
MatchRoute ==
    /\ pc = "indexed"
    /\ LET ids      == SortedIds(DOMAIN route_points)
           route_id == ids[Len(results) + 1]
           m        == MatchOne(route_id, route_points[route_id], segments,
                                coords, seg_indices)
       IN  IF ids = <<>>
           THEN /\ pc' = "matched"
                /\ UNCHANGED matchVars
           ELSE /\ results' = Append(results, m.result)
                /\ indices_log' = Append(indices_log, m.indices)
                /\ matched_log' = Append(matched_log, m.matched)
                /\ pc' = IF Len(results) + 1 = Len(ids) THEN "matched" ELSE "indexed"
    /\ UNCHANGED <<inputVars, indexVars, densifyVars, ioVars>>

NextOverlay == ParseSegments \/ BuildKDTree \/ MatchRoute

\* The densifier under test is not running.
DensifyIdle ==
    /\ d_points = <<>>
    /\ d_spacing = DENSIFY_SPACING_M
    /\ d_dense = <<>>
    /\ d_dense2 = <<>>
    /\ d_pc = "idle"

\* No request is being made.
FetchIdle ==
    /\ server = NoServer
    /\ fault = "none"
    /\ offset = 0
    /\ all_features = <<>>

\* The GTFS files are not being read.
GtfsIdle ==
    /\ trips = <<>>
    /\ shapes = <<>>

\* The tables of the database: the one this program writes and, standing for
\* all the others, one that build_db.py writes.
TableNames == {"route_traffic", "routes"}

NoTable == <<"no table">>

\* A database in which neither table exists yet.
FreshDb == [t \in TableNames |-> NoTable]

\* The state of main, in its first run, once the inputs are loaded.
InitOverlayOn(featureLists, routeDicts, dbs) ==
    /\ features \in featureLists
    /\ route_points \in routeDicts
    /\ segments = <<>>
    /\ skipped = 0
    /\ coords = <<>>
    /\ seg_indices = <<>>
    /\ results = <<>>
    /\ indices_log = <<>>
    /\ matched_log = <<>>
    /\ pc = "start"
    /\ db \in dbs
    /\ run = 1
    /\ FetchIdle
    /\ cache_file = Val(features)
    /\ console = <<"Loading cached data">>
    /\ GtfsIdle
    /\ DensifyIdle

InitOverlay(featureLists, routeDicts) ==
    InitOverlayOn(featureLists, routeDicts, {FreshDb})

----------------------------------------------------------------------------
(* Densifier under test: a polyline and a spacing are drawn, the polyline  *)
(* is densified, and the result is densified again at the same spacing.    *)

\* The overlay pipeline is not running.
OverlayIdle ==
    /\ features = <<>>
    /\ route_points = <<>>
    /\ segments = <<>>
    /\ skipped = 0
    /\ coords = <<>>
    /\ seg_indices = <<>>
    /\ results = <<>>
    /\ indices_log = <<>>
    /\ matched_log = <<>>
    /\ pc = "idle"
    /\ db = FreshDb
    /\ run = 0
    /\ FetchIdle
    /\ cache_file = Absent
    /\ console = <<>>
    /\ GtfsIdle

MaxPolyLen == 3     \* points of an input polyline
MaxLat     == 4     \* latitudes 0..MaxLat, in grid units

\* Sequences over S of length at most n
SeqUpTo(S, n) == UNION {[1..k -> S] : k \in 0..n}

\* Longitudes of the grid, in grid units
GridLons == {0, 1}

GridPoints == {<<FromInt(a), FromInt(b)>> : a \in 0..MaxLat, b \in GridLons}

\* The program's spacing, and a finer one.
Spacings == {DENSIFY_SPACING_M, DENSIFY_SPACING_M \div 3}

InitDensify ==
    /\ d_points \in SeqUpTo(GridPoints, MaxPolyLen)
    /\ d_spacing \in Spacings
    /\ d_dense = <<>>
    /\ d_dense2 = <<>>
    /\ d_pc = "input"
    /\ OverlayIdle

Densify ==
    /\ d_pc = "input"
    /\ d_dense' = densify_segment(d_points, d_spacing)
    /\ d_pc' = "dense"
    /\ UNCHANGED <<d_points, d_spacing, d_dense2, overlayVars, ioVars>>

Redensify ==
    /\ d_pc = "dense"
    /\ d_dense2' = densify_segment(d_dense, d_spacing)
    /\ d_pc' = "redense"
    /\ UNCHANGED <<d_points, d_spacing, d_dense, overlayVars, ioVars>>

NextDensify == Densify \/ Redensify

SpecDensify == InitDensify /\ [][NextDensify]_vars

----------------------------------------------------------------------------
(* Inputs of the overlay.                                                  *)

MaxFeatures  == 2     \* features returned by the API
MaxRoutePts  == 2     \* points of a route polyline

\* A feature of the API with the given attribute values and paths
Feature(aadt, len, truck, paths) ==
    [EmptyFeature EXCEPT
        !["attributes"] = Val([EmptyAttrs EXCEPT !["CUR_AADT"] = aadt,
                                                 !["SEG_LNGTH_FEET"] = len,
                                                 !["TRK_PCT"] = truck]),
        !["geometry"]   = Val([EmptyGeom EXCEPT !["paths"] = paths])]

\* Geometries, one path each, in Web Mercator units (x, y):
\* GeoNorth runs 48 m north from the origin, GeoEast 48 m east from the
\* origin, GeoCorner is the single point 48 m north and 48 m east of it.
GeoNorth  == << <<<<0, 0>>, <<0, 1>>>> >>
GeoEast   == << <<<<0, 0>>, <<1, 0>>>> >>
GeoCorner == << <<<<1, 1>>>> >>

\* Route points (lat, lon), in grid units: at the origin; 30 m west and 33 m
\* west of the middle of GeoNorth; 30 m east of it; far from every geometry.
RoutePointChoices ==
    {<<FromInt(0), FromInt(0)>>, <<FromInt(6), FromInt(-10)>>,
     <<FromInt(6), FromInt(-11)>>, <<FromInt(6), FromInt(10)>>,
     <<FromInt(40), FromInt(40)>>}

\* Polylines as load_gtfs_routes returns them: at least one point, no point twice
Polylines(S, n) ==
    {q \in SeqUpTo(S, n) : Len(q) >= 1 /\ \A i, j \in 1..Len(q) : q[i] = q[j] => i = j}

\* Matching: features that differ in geometry, one route of any shape.
MatchFeatures ==
    {Feature(Val(al[1]), Val(al[2]), None, Val(g)) :
        al \in {<<10000, 100>>, <<30000, 300>>}, g \in {GeoNorth, GeoEast, GeoCorner}}
    \cup {Feature(Val(10000), Val(100), None, Val(<<>>))}

InitMatch ==
    InitOverlay(SeqUpTo(MatchFeatures, MaxFeatures),
                {[r \in {1} |-> q] : q \in Polylines(RoutePointChoices, MaxRoutePts)})

Spec == InitMatch /\ [][NextOverlay]_vars

\* Aggregation: features that differ in AADT and length, on and off a fixed route.
AggFeatures ==
    {Feature(a, l, None, Val(g)) :
        a \in {None, Val(10000), Val(30000)},
        l \in {Absent, Val(0), Val(100), Val(300)},
        g \in {GeoNorth, GeoCorner}}

InitAgg ==
    InitOverlay(SeqUpTo(AggFeatures, MaxFeatures),
                {[r \in {1} |-> <<<<FromInt(0), FromInt(0)>>, <<FromInt(40), FromInt(40)>>>>]})

SpecAgg == InitAgg /\ [][NextOverlay]_vars

----------------------------------------------------------------------------
(* Properties of match_routes.                                             *)

\* the squared distance, in local meters, from indexed point k to route point p
IndexDist2(k, p) ==
    LET m == to_local_meters(p[1], p[2])
    IN  Hypot2(RatSub(coords[k][1], m[1]), RatSub(coords[k][2], m[2]))

Buffer2 == FromInt(BUFFER_METERS * BUFFER_METERS)

\* the polyline of the route of results[i]
RouteOf(i) == route_points[results[i].route_id]

\* the route points of results[i] whose radius query returned something
HittingPoints(i) == {j \in 1..Len(indices_log[i]) : indices_log[i][j] # {}}

\* C1: match_rate is the number of route points whose radius query returned
\* at least one index point, divided by n_route_points, and lies in [0, 1].
MatchRateIsHitFraction ==
    \A i \in 1..Len(results) :
        LET r == results[i]
        IN  /\ Len(indices_log[i]) = Len(RouteOf(i))
            /\ r.match_rate = Rat(Cardinality(HittingPoints(i)), r.n_route_points)
            /\ RatLE(FromInt(0), r.match_rate)
            /\ RatLE(r.match_rate, FromInt(1))

\* a route of two points, one hitting and one missing
MatchRateWitness ==
    /\ pc = "matched"
    /\ results[1].n_route_points = 2
    /\ Cardinality(HittingPoints(1)) = 1
    /\ results[1].match_rate = <<1, 2>>

\* no indexed point lies within BUFFER_METERS of any point of the route of results[i]
AllPointsMiss(i) ==
    \A j \in 1..Len(RouteOf(i)) :
        \A k \in 1..Len(coords) : ~RatLE(IndexDist2(k, RouteOf(i)[j]), Buffer2)

\* C2: a result with n_segments = 0 has weighted_aadt, max_aadt, median_aadt,
\* p90_aadt and total_length equal to 0, avg_truck_pct null and match_rate 0;
\* a route whose every point misses the buffer gets exactly this record.
UnmatchedIsAllZero ==
    \A i \in 1..Len(results) :
        LET r == results[i]
        IN  /\ r.n_segments = 0 =>
                /\ r.weighted_aadt = FromInt(0)
                /\ r.max_aadt = 0
                /\ r.median_aadt = FromInt(0)
                /\ r.p90_aadt = FromInt(0)
                /\ r.total_length_ft = 0
                /\ r.avg_truck_pct = None
                /\ r.match_rate = FromInt(0)
            /\ AllPointsMiss(i) => r.n_segments = 0

\* a route of two points, both missing every indexed point
UnmatchedWitness ==
    /\ pc = "matched"
    /\ Len(coords) >= 2
    /\ Len(RouteOf(1)) = 2
    /\ AllPointsMiss(1)
    /\ results[1].n_segments = 0

\* the matched segments of results[i], as positions in `segments` (from 1)
Matched(i) == {m + 1 : m \in matched_log[i]}

TotalLength(i) == SumOver(Matched(i), [m \in Matched(i) |-> segments[m].length_ft])

\* C3: with matched segments, weighted_aadt is sum(aadt*length)/sum(length)
\* when sum(length) > 0 and the unweighted mean of aadt when sum(length) = 0,
\* and is always a number; segments (10000, 100) and (30000, 300) give 25000
\* with n_segments 2.
WeightedAadtFormula ==
    \A i \in 1..Len(results) :
        matched_log[i] # {} =>
            LET M == Matched(i)
                w == results[i].weighted_aadt
            IN  /\ w[2] # 0
                /\ TotalLength(i) > 0 =>
                       RatMul(w, FromInt(TotalLength(i)))
                           = FromInt(SumOver(M, [m \in M |->
                                 segments[m].aadt * segments[m].length_ft]))
                /\ TotalLength(i) = 0 =>
                       RatMul(w, FromInt(Cardinality(M)))
                           = FromInt(SumOver(M, [m \in M |-> segments[m].aadt]))
                /\ {<<segments[m].aadt, segments[m].length_ft>> : m \in M}
                       = {<<10000, 100>>, <<30000, 300>>} /\ Cardinality(M) = 2
                   => w = FromInt(25000) /\ results[i].n_segments = 2

\* the segments (10000, 100) and (30000, 300) are both matched
WeightedAadtWitness ==
    /\ pc = "matched"
    /\ Cardinality(Matched(1)) = 2
    /\ {<<segments[m].aadt, segments[m].length_ft>> : m \in Matched(1)}
           = {<<10000, 100>>, <<30000, 300>>}
    /\ results[1].weighted_aadt = FromInt(25000)

DensePoints(s) == densify_segment(segments[s].points, DENSIFY_SPACING_M)

\* some densified point of segment s is within BUFFER_METERS of some point of
\* the route of results[i]
SegmentNearRoute(s, i) ==
    \E k \in 1..Len(DensePoints(s)) : \E j \in 1..Len(RouteOf(i)) :
        RatLE(PlanarDist2(DensePoints(s)[k], RouteOf(i)[j]),  Buffer2)

\* C5: the matched segment set of a route is the union over its points of the
\* segment indices of every index point their radius queries returned, and a
\* segment is in it iff one of its densified points is within BUFFER_METERS
\* of one of the route's points.
MatchedSetIsUnion ==
    \A i \in 1..Len(results) :
        /\ matched_log[i] =
               UNION {{seg_indices[k] : k \in indices_log[i][j]} :
                          j \in 1..Len(indices_log[i])}
        /\ \A s \in 1..Len(segments) :
               (s - 1) \in matched_log[i] <=> SegmentNearRoute(s, i)

\* the query of one route point returned points of two segments
MatchedSetWitness ==
    /\ pc = "matched"
    /\ \E j \in 1..Len(indices_log[1]) :
           Cardinality({seg_indices[k] : k \in indices_log[1][j]}) = 2
    /\ Cardinality(matched_log[1]) = 2

\* C6: the radius query of a route point returns exactly the indexed points
\* at planar distance <= BUFFER_METERS, in local meters, from it.
RadiusQueryExact ==
    \A i \in 1..Len(results) :
        \A j \in 1..Len(RouteOf(i)) :
            indices_log[i][j] =
                {k \in 1..Len(coords) : RatLE(IndexDist2(k, RouteOf(i)[j]), Buffer2)}

\* one query returned a point exactly BUFFER_METERS away, another returned nothing
RadiusQueryWitness ==
    /\ pc = "matched"
    /\ \E j \in 1..Len(RouteOf(1)) :
           \E k \in indices_log[1][j] : IndexDist2(k, RouteOf(1)[j]) = Buffer2
    /\ \E j \in 1..Len(RouteOf(1)) : indices_log[1][j] = {}

----------------------------------------------------------------------------
(* Properties of densify_segment.                                          *)

\* q = p0 + t * (p1 - p0) for some t with 0 < t < 1
StrictlyBetween(q, p0, p1) ==
    /\ p0 # p1
    /\ LET dlat == RatSub(p1[1], p0[1])
           dlon == RatSub(p1[2], p0[2])
           t    == IF dlat[1] # 0
                   THEN RatDiv(RatSub(q[1], p0[1]), dlat)
                   ELSE RatDiv(RatSub(q[2], p0[2]), dlon)
       IN  /\ RatLT(FromInt(0), t)
           /\ RatLT(t, FromInt(1))
           /\ q = <<RatAdd(p0[1], RatMul(t, dlat)), RatAdd(p0[2], RatMul(t, dlon))>>

\* points[i..] are found in dense[k..], in order, starting at dense[k] and
\* ending at the last point of dense, and every point of dense in between two
\* of them lies strictly between the two input points around it.
RECURSIVE EmbedsFrom(_, _, _, _)
EmbedsFrom(points, dense, i, k) ==
    /\ k <= Len(dense)
    /\ dense[k] = points[i]
    /\ IF i = Len(points)
       THEN k = Len(dense)
       ELSE \E k2 \in (k + 1)..Len(dense) :
               /\ \A m \in (k + 1)..(k2 - 1) :
                      StrictlyBetween(dense[m], points[i], points[i + 1])
               /\ EmbedsFrom(points, dense, i + 1, k2)

\* C7: the output of densify_segment contains every input point in the input
\* order, every other point of it lies strictly between (at a fraction in the
\* open interval (0,1) of) the two consecutive input points around it, and
\* the output without those other points is the input.
DensifyPreservesInput ==
    d_pc # "input" =>
        IF d_points = <<>> THEN d_dense = <<>>
        ELSE EmbedsFrom(d_points, d_dense, 1, 1)

\* a polyline of three points is densified and gets points added
DensifyPreservesWitness ==
    /\ d_pc = "dense"
    /\ Len(d_points) = 3
    /\ d_points[1] # d_points[2]
    /\ Len(d_dense) > Len(d_points) + 1

\* floor(d / spacing) when d > spacing, 0 when d <= spacing
ExpectedAdded(p0, p1, spacing) ==
    LET d2 == PlanarDist2(p0, p1)
        s2 == spacing * spacing
    IN  IF d2[1] <= s2 * d2[2] THEN 0
        ELSE CHOOSE n \in 1..(d2[1] \div (s2 * d2[2]) + 1) :
                 /\ n * n * s2 * d2[2] <= d2[1]
                 /\ d2[1] < (n + 1) * (n + 1) * s2 * d2[2]

\* where input point i is expected in the output
RECURSIVE OrigPos(_, _, _)
OrigPos(points, spacing, i) ==
    IF i = 1 THEN 1
    ELSE OrigPos(points, spacing, i - 1) + 1
         + ExpectedAdded(points[i - 1], points[i], spacing)

\* the step from a to b, as a vector
Step(a, b) == <<RatSub(b[1], a[1]), RatSub(b[2], a[2])>>

\* C8: on each edge of length d the densifier inserts exactly floor(d/spacing)
\* evenly spaced points when d > spacing and none when d <= spacing (a
\* zero-length edge included); a polyline of at most one point is returned
\* unchanged.
DensifyInsertCount ==
    d_pc # "input" =>
        /\ Len(d_points) <= 1 => d_dense = d_points
        /\ Len(d_points) >= 1 =>
            /\ Len(d_dense) = OrigPos(d_points, d_spacing, Len(d_points))
            /\ \A i \in 1..Len(d_points) :
                   d_dense[OrigPos(d_points, d_spacing, i)] = d_points[i]
            /\ \A i \in 1..(Len(d_points) - 1) :
                   LET a == OrigPos(d_points, d_spacing, i)
                       b == OrigPos(d_points, d_spacing, i + 1)
                   IN  \A m \in a..(b - 2) :
                           Step(d_dense[m], d_dense[m + 1])
                               = Step(d_dense[m + 1], d_dense[m + 2])

\* one edge gets two or more points, another is exactly `spacing` long
DensifyInsertCountWitness ==
    /\ d_pc = "dense"
    /\ \E i \in 1..(Len(d_points) - 1) :
           ExpectedAdded(d_points[i], d_points[i + 1], d_spacing) >= 2
    /\ \E i \in 1..(Len(d_points) - 1) :
           PlanarDist2(d_points[i], d_points[i + 1]) = FromInt(d_spacing * d_spacing)
    /\ Len(d_dense) > Len(d_points)

----------------------------------------------------------------------------
(* Properties of parse_penndot_segments.                                   *)

\* A feature with the given values under "attributes" and "geometry"
FeatureOf(attributes, geometry) ==
    [EmptyFeature EXCEPT !["attributes"] = attributes, !["geometry"] = geometry]

\* An attributes dict with the given CUR_AADT, and a geometry dict with the
\* given paths
AttrsOf(aadt) ==
    Val([EmptyAttrs EXCEPT !["CUR_AADT"] = aadt, !["SEG_LNGTH_FEET"] = Val(100)])
GeomOf(paths) == Val([EmptyGeom EXCEPT !["paths"] = paths])

\* Parsing: records whose attributes or geometry are absent, null or empty,
\* whose AADT is absent, null, zero or negative, whose paths are absent,
\* null, an empty list, or a list of empty paths; and a complete record.
ParseFeatures ==
    {FeatureOf(a, GeomOf(Val(GeoCorner))) :
        a \in {Absent, None, Val(EmptyAttrs), AttrsOf(None), AttrsOf(Val(0)),
               AttrsOf(Val(-1)), AttrsOf(Val(10000))}}
    \cup {FeatureOf(AttrsOf(Val(10000)), g) :
        g \in {Absent, None, Val(EmptyGeom), GeomOf(None), GeomOf(Val(<<>>)),
               GeomOf(Val(<< <<>> >>))}}
    \cup {FeatureOf(Absent, Absent), FeatureOf(None, None)}

\* One route, its single point on GeoCorner.
InitParse ==
    InitOverlay(SeqUpTo(ParseFeatures, MaxFeatures),
                {[r \in {1} |-> << <<FromInt(12), FromInt(16)>> >>]})

SpecParse == InitParse /\ [][NextOverlay]_vars

\* C11: every segment returned by parse_penndot_segments has aadt > 0 and at
\* least one point, whatever the features (a geometry whose paths are all
\* empty included).
SegmentsPositiveNonEmpty ==
    \A i \in 1..Len(segments) :
        /\ segments[i].aadt > 0
        /\ segments[i].points # <<>>

\* the record has no AADT: no attributes, or no CUR_AADT in them
MissingAadt(feat) ==
    \/ feat["attributes"] \in {Absent, None}
    \/ feat["attributes"][2]["CUR_AADT"] \in {Absent, None}

\* the record has no geometry: no geometry, or no path in it
MissingGeometry(feat) ==
    \/ feat["geometry"] \in {Absent, None}
    \/ feat["geometry"][2]["paths"] \in {Absent, None, Val(<<>>)}

\* C12: parse_penndot_segments does not raise on a record with missing AADT
\* or missing geometry: every such record is skipped and counted, and every
\* record of the list is either counted as skipped or parsed.
MalformedSkippedNotRaised ==
    pc # "start" =>
        LET bad == {i \in 1..Len(features) :
                       MissingAadt(features[i]) \/ MissingGeometry(features[i])}
        IN  bad # {} =>
                /\ skipped >= Cardinality(bad)
                /\ Len(segments) + skipped = Len(features)

----------------------------------------------------------------------------
(* Properties of the truck percentage.                                     *)

\* Truck aggregation: features on the route that differ in length and in
\* the truck percentage they report, if any.
TruckFeatures ==
    {Feature(Val(10000), l, t, Val(g)) :
        l \in {Val(0), Val(100), Val(300)},
        t \in {Absent, None, Val(0), Val(5), Val(20)},
        g \in {GeoNorth}}
    \cup {Feature(Val(10000), Val(100), Val(20), Val(GeoCorner))}

InitTruck ==
    InitOverlay(SeqUpTo(TruckFeatures, MaxFeatures),
                {[r \in {1} |-> <<<<FromInt(0), FromInt(0)>>, <<FromInt(40), FromInt(40)>>>>]})

SpecTruck == InitTruck /\ [][NextOverlay]_vars

\* the matched segments of results[i] that report a truck percentage
Reporting(i) == {s \in matched_log[i] : segments[s + 1].truck_pct # None}

\* C13: for a route with matched segments, avg_truck_pct is
\* sum(truck_i * length_i) / sum(length_i) over the matched segments that
\* report a truck percentage, and it is null exactly when none reports one.
AvgTruckIsWeightedMean ==
    \A i \in 1..Len(results) :
        matched_log[i] # {} =>
            LET T      == Reporting(i)
                sumlen == SumOver(T, [s \in T |-> segments[s + 1].length_ft])
                sumtl  == SumOver(T, [s \in T |->
                              segments[s + 1].truck_pct[2] * segments[s + 1].length_ft])
            IN  IF T = {}
                THEN results[i].avg_truck_pct = None
                ELSE /\ sumlen > 0
                     /\ results[i].avg_truck_pct = Val(Rat(sumtl, sumlen))

----------------------------------------------------------------------------
(* write_to_db, and main run again on the same database.                   *)

\* The values SQLite stores: NULL, or Val(x).
NULL == <<"NULL">>

\* A str or an int bound to a parameter of an INSERT is stored as it is.
SqlValue(x) == Val(x)

\* A float bound to a parameter of an INSERT: sqlite3 stores a nan as NULL.
SqlReal(x) == IF x = NaN THEN NULL ELSE Val(x)

\* None is stored as NULL.
SqlNullableReal(v) == IF v = None THEN NULL ELSE SqlReal(v[2])

\* A table that exists, with its rows in the order of insertion
Table(rows) == <<"table", rows>>

\* Lines 366-373: the tuple of one result, as the values SQLite stores
Row(r) ==
    [route_id        |-> SqlValue(r.route_id),
     n_segments      |-> SqlValue(r.n_segments),
     total_length_ft |-> SqlValue(r.total_length_ft),
     weighted_aadt   |-> SqlReal(r.weighted_aadt),
     max_aadt        |-> SqlValue(r.max_aadt),
     median_aadt     |-> SqlReal(r.median_aadt),
     p90_aadt        |-> SqlReal(r.p90_aadt),
     avg_truck_pct   |-> SqlNullableReal(r.avg_truck_pct),
     n_route_points  |-> SqlValue(r.n_route_points),
     match_rate      |-> SqlReal(r.match_rate)]

\* Lines 345-356: every column but avg_truck_pct is NOT NULL
NotNullColumns ==
    {"n_segments", "total_length_ft", "weighted_aadt", "max_aadt", "median_aadt",
     "p90_aadt", "n_route_points", "match_rate"}

\* The INSERTs of executemany succeed: no NULL in a NOT NULL column, no
\* route_id (the PRIMARY KEY) twice.
InsertsSucceed(rows) ==
    /\ \A i \in 1..Len(rows) : \A c \in NotNullColumns : rows[i][c] # NULL
    /\ \A i, j \in 1..Len(rows) : rows[i].route_id = rows[j].route_id => i = j

\* Mutant: only the routes with matched segments are written.
write_to_db_matched_only(database, res) ==
    LET RECURSIVE Keep(_)
        Keep(q) == IF q = <<>> THEN <<>>
                   ELSE IF Head(q).n_segments > 0 THEN <<Row(Head(q))>> \o Keep(Tail(q))
                   ELSE Keep(Tail(q))
    IN  [raised |-> FALSE, db |-> [database EXCEPT !["route_traffic"] = Table(Keep(res))]]

\* Mutant: the table is created if it is missing and the rows are added to it.
write_to_db_append(database, res) ==
    LET old  == IF database["route_traffic"] = NoTable THEN <<>>
                ELSE database["route_traffic"][2]
        rows == [i \in 1..Len(res) |-> Row(res[i])]
    IN  [raised |-> FALSE,
         db     |-> [database EXCEPT !["route_traffic"] = Table(old \o rows)]]

\* Lines 340-378: the table is dropped if it exists and created again, both
\* committed at once; the rows are inserted in one transaction, which is
\* committed if every INSERT succeeds and otherwise lost with the exception.
write_to_db(database, res) ==
    LET rows == [i \in 1..Len(res) |-> Row(res[i])]
        ok   == InsertsSucceed(rows)
    IN  [raised |-> ~ok,
         db     |-> [database EXCEPT
                        !["route_traffic"] = Table(IF ok THEN rows ELSE <<>>)]]

\* Line 413
WriteToDb ==
    /\ pc = "matched"
    /\ LET w == write_to_db(db, results)
       IN  /\ db' = w.db
           /\ pc' = IF w.raised THEN "raised" ELSE "written"
    /\ UNCHANGED <<inputVars, indexVars, matchVars, densifyVars, run, fetchVars,
                   gtfsVars>>

MaxRuns == 2     \* runs of main on one database

\* main is started again, after a run that ended, on new inputs (the cache
\* file was replaced); the database is what the earlier runs left.
NewRun(featureLists, routeDicts) ==
    /\ pc \in {"written", "raised"}
    /\ run < MaxRuns
    /\ run' = run + 1
    /\ features' \in featureLists
    /\ route_points' \in routeDicts
    /\ segments' = <<>>
    /\ skipped' = 0
    /\ coords' = <<>>
    /\ seg_indices' = <<>>
    /\ results' = <<>>
    /\ indices_log' = <<>>
    /\ matched_log' = <<>>
    /\ pc' = "start"
    /\ cache_file' = Val(features')
    /\ UNCHANGED <<db, densifyVars, server, fault, offset, all_features, console,
                   gtfsVars>>

\* Runs: no feature, one segment, or two segments, of which GeoNorth has no
\* truck percentage.
RunFeatureLists ==
    LET north  == Feature(Val(10000), Val(100), None, Val(GeoNorth))
        corner == Feature(Val(30000), Val(300), Val(5), Val(GeoCorner))
    IN  {<<>>, <<north>>, <<north, corner>>}

\* Polylines at the origin (on GeoNorth), far from every geometry, and from
\* the origin to GeoCorner.
RunPolylines ==
    {<< <<FromInt(0), FromInt(0)>> >>,
     << <<FromInt(40), FromInt(40)>> >>,
     << <<FromInt(0), FromInt(0)>>, <<FromInt(12), FromInt(16)>> >>}

\* No route, route 1, route 2, or both, each with any of the polylines.
RunRouteDicts == UNION {[ids -> RunPolylines] : ids \in SUBSET {1, 2}}

\* A row of route_traffic left by an earlier version of the data, and the
\* rows of the table `routes`.
StaleRow == Row(UnmatchedResult(9, 1, FromInt(0)))
RoutesRows == <<[route_id |-> SqlValue(1)], [route_id |-> SqlValue(2)]>>

InitialDbs ==
    {[t \in TableNames |-> IF t = "route_traffic" THEN rt ELSE ro] :
        rt \in {NoTable, Table(<<StaleRow>>)}, ro \in {NoTable, Table(RoutesRows)}}

InitRuns == InitOverlayOn(RunFeatureLists, RunRouteDicts, InitialDbs)

NextRuns == NextOverlay \/ WriteToDb \/ NewRun(RunFeatureLists, RunRouteDicts)

SpecRuns == InitRuns /\ [][NextRuns]_vars

\* the positions in `results` of the record of route r
ResultsOf(r) == {i \in 1..Len(results) : results[i].route_id = r}

\* the rows of table route_traffic, which exists
TrafficRows == db["route_traffic"][2]

\* the positions in table route_traffic of the row of route r
RowsOf(r) == {i \in 1..Len(TrafficRows) : TrafficRows[i].route_id = Val(r)}

\* C14: match_routes returns exactly one result per input route, a route
\* with no segment near it included, with n_segments = 0; write_to_db
\* leaves exactly one row of route_traffic per result.
OneResultOneRowPerRoute ==
    /\ pc \in {"matched", "written"} =>
           /\ \A r \in DOMAIN route_points : Cardinality(ResultsOf(r)) = 1
           /\ \A i \in 1..Len(results) :
                  /\ results[i].route_id \in DOMAIN route_points
                  /\ AllPointsMiss(i) => results[i].n_segments = 0
    /\ pc = "written" =>
           /\ db["route_traffic"] # NoTable
           /\ \A i \in 1..Len(TrafficRows) :
                  ResultsOf(TrafficRows[i].route_id[2]) # {}
           /\ \A i \in 1..Len(results) :
                  /\ Cardinality(RowsOf(results[i].route_id)) = 1
                  /\ \A k \in RowsOf(results[i].route_id) :
                         TrafficRows[k].n_segments = Val(results[i].n_segments)

\* two routes were matched, one of them with no segment near it, and written
OneResultOneRowWitness ==
    /\ pc = "written"
    /\ DOMAIN route_points = {1, 2}
    /\ \E i \in 1..Len(results) : AllPointsMiss(i)
    /\ \E i \in 1..Len(results) : results[i].n_segments > 0
    /\ Len(TrafficRows) = 2

\* C15: when write_to_db of a run returns, table route_traffic holds the rows
\* of that run's results and nothing else, whatever the earlier runs left in
\* it; no step of a run changes another table.
TableRebuiltEachRun ==
    [][/\ \A t \in TableNames \ {"route_traffic"} : db'[t] = db[t]
       /\ (pc = "matched" /\ pc' = "written") =>
              /\ db'["route_traffic"] # NoTable
              /\ Len(db'["route_traffic"][2]) = Len(results)
              /\ \A i \in 1..Len(results) :
                     LET row == db'["route_traffic"][2][i]
                         r   == results[i]
                     IN  /\ \A c \in {"route_id", "n_segments", "total_length_ft",
                                      "weighted_aadt", "max_aadt", "median_aadt",
                                      "p90_aadt", "n_route_points", "match_rate"} :
                                row[c] = Val(r[c])
                         /\ row.avg_truck_pct =
                                (IF r.avg_truck_pct = None THEN NULL
                                 ELSE r.avg_truck_pct)]_vars

\* a later run has written its rows; the other table has rows
TableRebuiltWitness ==
    /\ pc = "written"
    /\ run >= 2
    /\ TrafficRows # <<>>
    /\ db["routes"] # NoTable

----------------------------------------------------------------------------
(* Independence of the routes in match_routes.                             *)

\* the points of the route of results[i] with an indexed point within
\* BUFFER_METERS
PointsInBuffer(i) ==
    {j \in 1..Len(RouteOf(i)) :
        \E k \in 1..Len(coords) : RatLE(IndexDist2(k, RouteOf(i)[j]), Buffer2)}

\* the segments (indices from 0) near the route of results[i]
SegmentsNear(i) == {s \in 0..(Len(segments) - 1) : SegmentNearRoute(s + 1, i)}

\* the record of the route of results[i], from its own points, the segments
\* and the index alone
OwnRecord(i) ==
    LET n    == Len(RouteOf(i))
        rate == Rat(Cardinality(PointsInBuffer(i)), n)
    IN  IF SegmentsNear(i) = {}
        THEN UnmatchedResult(results[i].route_id, n, rate)
        ELSE MatchedResult(results[i].route_id, n, rate, segments, SegmentsNear(i))

----------------------------------------------------------------------------
(* Properties of fetch_penndot_pages and load_penndot_data.                *)

MaxRecords == 4     \* records of the service, in blocks of 500

\* Record i of the service
Record(i) ==
    FeatureOf(Val([EmptyAttrs EXCEPT !["OBJECTID"] = Val(i), !["CUR_AADT"] = Val(10000)]),
              GeomOf(Val(GeoCorner)))

\* main is started: a service with any number of records that returns at
\* most maxRecordCount of them per page, and no cache file or one that was
\* downloaded by hand.
InitFetch ==
    /\ \E n \in 0..MaxRecords : \E cap \in 1..page_size :
           server = [records |-> [i \in 1..n |-> Record(i)], max_record_count |-> cap]
    /\ cache_file \in {Absent, Val(<<Record(0)>>)}
    /\ fault = "none"
    /\ offset = 0
    /\ all_features = <<>>
    /\ console = <<>>
    /\ features = <<>>
    /\ route_points = [r \in {1} |-> << <<FromInt(12), FromInt(16)>> >>]
    /\ segments = <<>>
    /\ skipped = 0
    /\ coords = <<>>
    /\ seg_indices = <<>>
    /\ results = <<>>
    /\ indices_log = <<>>
    /\ matched_log = <<>>
    /\ pc = "load"
    /\ db = FreshDb
    /\ run = 1
    /\ GtfsIdle
    /\ DensifyIdle

\* main is started again after a run that has loaded the features or has
\* raised; the cache file is what the earlier runs left.
RunAgain ==
    /\ pc \in {"start", "parsed", "raised"}
    /\ run < MaxRuns
    /\ run' = run + 1
    /\ features' = <<>>
    /\ segments' = <<>>
    /\ skipped' = 0
    /\ fault' = "none"
    /\ offset' = 0
    /\ all_features' = <<>>
    /\ console' = <<>>
    /\ pc' = "load"
    /\ UNCHANGED <<route_points, coords, seg_indices, matchVars, densifyVars, db,
                   server, cache_file, gtfsVars>>

NextFetch == LoadPenndotData \/ FetchPage \/ ParseSegments \/ RunAgain

SpecFetch == InitFetch /\ [][NextFetch]_vars

\* the line of a message that points to the manual download of the dataset
ManualDownloadMessage == "Download the dataset manually to CACHE_FILE"

\* C16: once a request has failed, with a network error or an error of the
\* service, the run has aborted with a message pointing to the manual
\* download, nothing was cached, and no feature list was passed on.
FetchFailureAborts ==
    fault # "none" =>
        /\ pc = "raised"
        /\ \E k \in 1..Len(console) : console[k] = ManualDownloadMessage
        /\ cache_file = Absent
        /\ features = <<>>

\* C17: when fetch_penndot_pages returns, no request having failed, it
\* returns every record of the service once, in offset order, whatever
\* number of records per page the service returns.
FetchReturnsEveryRecord ==
    (/\ pc = "start"
     /\ fault = "none"
     /\ console = <<"Fetching from PennDOT ArcGIS API...">>) =>
        /\ features = server.records
        /\ all_features = server.records

----------------------------------------------------------------------------
(* load_gtfs_routes.  A trips row is [shape_id, route_id], a shapes row     *)
(* [shape_id, pt], pt the (lat, lon) of shape_pt_lat and shape_pt_lon.     *)
(* 0.00001 degree is 0.28 grid units, 1/4 here.                            *)

\* round(x, 5): the multiple of 1/4 nearest to x, the even one of two equally
\* near
Round5(x) ==
    LET q   == 4 * x[1]
        lo  == q \div x[2]
        rem == q - lo * x[2]
        k   == IF 2 * rem < x[2] THEN lo
               ELSE IF 2 * rem > x[2] THEN lo + 1
               ELSE IF lo % 2 = 0 THEN lo ELSE lo + 1
    IN  Rat(k, 4)

\* Line 182: key = (round(lat, 5), round(lon, 5))
Key(pt) == <<Round5(pt[1]), Round5(pt[2])>>

\* Lines 150-158: shape_to_route, the route of the first trip of each shape
RECURSIVE ShapeToRouteFrom(_, _, _)
ShapeToRouteFrom(rows, i, shape_to_route) ==
    IF i > Len(rows) THEN shape_to_route
    ELSE LET sid == rows[i].shape_id
         IN  ShapeToRouteFrom(rows, i + 1,
                 IF sid \in DOMAIN shape_to_route THEN shape_to_route
                 ELSE shape_to_route @@ (sid :> rows[i].route_id))

\* Lines 163-176: route_points before deduplication
RECURSIVE RoutePointsFrom(_, _, _, _)
RoutePointsFrom(rows, i, shape_to_route, rp) ==
    IF i > Len(rows) THEN rp
    ELSE LET sid == rows[i].shape_id
         IN  IF sid \notin DOMAIN shape_to_route
             THEN RoutePointsFrom(rows, i + 1, shape_to_route, rp)
             ELSE LET rid == shape_to_route[sid]
                      old == IF rid \in DOMAIN rp THEN rp[rid] ELSE <<>>
                  IN  RoutePointsFrom(rows, i + 1, shape_to_route,
                          [r \in DOMAIN rp \cup {rid} |->
                              IF r = rid THEN Append(old, rows[i].pt) ELSE rp[r]])

\* Mutant: the rounded point is kept, not the original one.
UniqueFromRounded(pts, i, seen, unique) ==
    LET RECURSIVE U(_, _, _)
        U(k, sn, un) ==
            IF k > Len(pts) THEN un
            ELSE IF Key(pts[k]) \in sn THEN U(k + 1, sn, un)
            ELSE U(k + 1, sn \cup {Key(pts[k])}, Append(un, Key(pts[k])))
    IN  U(i, seen, unique)

\* Lines 179-187: `unique`, from point i on
RECURSIVE UniqueFrom(_, _, _, _)
UniqueFrom(pts, i, seen, unique) ==
    IF i > Len(pts) THEN unique
    ELSE LET key == Key(pts[i])
         IN  IF key \in seen THEN UniqueFrom(pts, i + 1, seen, unique)
             ELSE UniqueFrom(pts, i + 1, seen \cup {key}, Append(unique, pts[i]))

\* Mutant: every route of trips.txt gets a polyline, a route with no row in
\* shapes.txt an empty one.
load_gtfs_routes_every_route(trip_rows, shape_rows) ==
    LET shape_to_route == ShapeToRouteFrom(trip_rows, 1, <<>>)
        rp             == RoutePointsFrom(shape_rows, 1, shape_to_route, <<>>)
        rids           == {trip_rows[i].route_id : i \in 1..Len(trip_rows)}
    IN  [rid \in rids |->
            IF rid \in DOMAIN rp THEN UniqueFrom(rp[rid], 1, {}, <<>>) ELSE <<>>]

\* Lines 147-193
load_gtfs_routes(trip_rows, shape_rows) ==
    LET shape_to_route == ShapeToRouteFrom(trip_rows, 1, <<>>)
        rp             == RoutePointsFrom(shape_rows, 1, shape_to_route, <<>>)
    IN  [rid \in DOMAIN rp |-> UniqueFrom(rp[rid], 1, {}, <<>>)]

\* Line 402
LoadGtfsRoutes ==
    /\ pc = "gtfs"
    /\ route_points' = load_gtfs_routes(trips, shapes)
    /\ pc' = "routes"
    /\ UNCHANGED <<features, indexVars, matchVars, densifyVars, ioVars>>

MaxShapeRows == 3     \* rows of shapes.txt

\* Trips: one shape; two shapes of one route; two shapes of two routes; a
\* shape with trips of two routes; a trip of a shape that has no row.
TripTables ==
    LET row(sid, rid) == [shape_id |-> sid, route_id |-> rid]
    IN  {<<row("A", 1)>>,
         <<row("A", 1), row("B", 1)>>,
         <<row("A", 2), row("B", 1)>>,
         <<row("A", 1), row("A", 2), row("B", 2)>>,
         <<row("C", 1), row("B", 2)>>}

\* Shape points: the origin, a point that rounds to it, and two that round
\* to other points (3/8 up to 1/2, 5/8 down to 1/2).
ShapePoints ==
    {<<FromInt(0), FromInt(0)>>, <<Rat(1, 8), FromInt(0)>>,
     <<Rat(3, 8), FromInt(0)>>, <<Rat(5, 8), Rat(-1, 10)>>}

ShapeRows == {[shape_id |-> sid, pt |-> p] : sid \in {"A", "B"}, p \in ShapePoints}

\* main has parsed the segments and is about to read the GTFS files.
InitGtfs ==
    /\ trips \in TripTables
    /\ shapes \in SeqUpTo(ShapeRows, MaxShapeRows)
    /\ features = <<>>
    /\ route_points = <<>>
    /\ segments = <<>>
    /\ skipped = 0
    /\ coords = <<>>
    /\ seg_indices = <<>>
    /\ results = <<>>
    /\ indices_log = <<>>
    /\ matched_log = <<>>
    /\ pc = "gtfs"
    /\ db = FreshDb
    /\ run = 1
    /\ FetchIdle
    /\ cache_file = Val(features)
    /\ console = <<"Loading cached data">>
    /\ DensifyIdle

SpecGtfs == InitGtfs /\ [][LoadGtfsRoutes]_vars

\* the route of shape sid: that of its first row in trips.txt
TripRoute(sid) ==
    LET first == CHOOSE i \in 1..Len(trips) :
                     /\ trips[i].shape_id = sid
                     /\ \A j \in 1..(i - 1) : trips[j].shape_id # sid
    IN  trips[first].route_id

\* the shapes of route r that have rows in shapes.txt
ShapesOf(r) ==
    {sid \in {shapes[i].shape_id : i \in 1..Len(shapes)} :
        /\ \E i \in 1..Len(trips) : trips[i].shape_id = sid
        /\ TripRoute(sid) = r}

\* the points of shape sid
PointsOfShape(sid) == {shapes[i].pt : i \in {j \in 1..Len(shapes) : shapes[j].shape_id = sid}}

\* C18: the polyline of a route holds points of one shape of the route only.
PolylineOfOneShape ==
    pc = "routes" =>
        \A r \in DOMAIN route_points :
            \E sid \in ShapesOf(r) :
                \A k \in 1..Len(route_points[r]) : route_points[r][k] \in PointsOfShape(sid)

\* the rows of shapes.txt, by position, of the shapes of route r
RowsOfRoute(r) == {i \in 1..Len(shapes) : shapes[i].shape_id \in ShapesOf(r)}

\* the rows of route r whose rounded point no earlier row of the route has
FirstRows(r) ==
    {i \in RowsOfRoute(r) :
        \A j \in RowsOfRoute(r) : j < i => Key(shapes[j].pt) # Key(shapes[i].pt)}

\* the points of the rows I of shapes.txt, in file order
RECURSIVE PointsAt(_)
PointsAt(I) ==
    IF I = {} THEN <<>>
    ELSE LET lo == CHOOSE i \in I : \A j \in I : i <= j
         IN  <<shapes[lo].pt>> \o PointsAt(I \ {lo})

\* C19: no two points of a polyline are equal after rounding to 5 decimals;
\* the polyline is, in file order, the first point of each rounded key, with
\* the coordinates it has in the file.
PolylineDeduplicated ==
    pc = "routes" =>
        \A r \in DOMAIN route_points :
            LET q == route_points[r]
            IN  /\ \A i, j \in 1..Len(q) : Key(q[i]) = Key(q[j]) => i = j
                /\ q = PointsAt(FirstRows(r))

\* a point is kept that is not its own rounding, a later point with the same
\* rounding was dropped, and a point with another rounding follows
PolylineDeduplicatedWitness ==
    /\ pc = "routes"
    /\ \E r \in DOMAIN route_points :
           /\ Len(route_points[r]) = 2
           /\ Cardinality(RowsOfRoute(r)) = 3
           /\ Key(route_points[r][1]) # route_points[r][1]
           /\ shapes[2].pt # shapes[1].pt
           /\ Key(shapes[2].pt) = Key(shapes[1].pt)

----------------------------------------------------------------------------
(* Properties of the result records.                                       *)

\* route point j of results[i] coincides with an indexed point
OnIndexPoint(i, j) ==
    \E k \in 1..Len(coords) : IndexDist2(k, RouteOf(i)[j]) = FromInt(0)

\* C21: n_segments >= 1 exactly when match_rate > 0, that is when a route
\* point hits; a route of two points, one on an indexed point and one far
\* from every segment, gets match_rate 1/2 and n_segments >= 1.
SegmentsIffHit ==
    \A i \in 1..Len(results) :
        LET r == results[i]
        IN  /\ r.n_segments >= 1 <=> RatLT(FromInt(0), r.match_rate)
            /\ r.n_segments >= 1 <=> PointsInBuffer(i) # {}
            /\ (/\ Len(RouteOf(i)) = 2
                /\ \E j \in {1, 2} : OnIndexPoint(i, j) /\ PointsInBuffer(i) = {j})
               => r.match_rate = <<1, 2>> /\ r.n_segments >= 1

\* the route of two points of the example was matched
SegmentsIffHitWitness ==
    /\ pc = "matched"
    /\ Len(RouteOf(1)) = 2
    /\ OnIndexPoint(1, 1)
    /\ PointsInBuffer(1) = {1}
    /\ results[1].n_segments >= 1

\* the aadt of segment s (index from 0)
AadtOf(s) == segments[s + 1].aadt

\* the k-th smallest aadt, counted with repetitions, among the segments S
KthSmallest(S, k) ==
    CHOOSE v \in {AadtOf(s) : s \in S} :
        /\ Cardinality({s \in S : AadtOf(s) < v}) < k
        /\ Cardinality({s \in S : AadtOf(s) <= v}) >= k

\* C22: the aggregates of a route are taken over its distinct matched
\* segments, each once: n_segments is their number, total_length_ft the sum
\* of their lengths, max_aadt, median_aadt and p90_aadt the maximum, the
\* median and the 90th percentile (linear between the two nearest ranks) of
\* their aadt, with median <= p90 <= max; n_route_points is the number of
\* points of the polyline.
AggregatesOverDistinctSegments ==
    \A i \in 1..Len(results) :
        LET S  == SegmentsNear(i)
            n  == Cardinality(S)
            r  == results[i]
            lo == (9 * (n - 1)) \div 10
            fr == Rat((9 * (n - 1)) % 10, 10)
        IN  /\ r.n_route_points = Len(RouteOf(i))
            /\ r.n_segments = n
            /\ r.total_length_ft = SumOver(S, [s \in S |-> segments[s + 1].length_ft])
            /\ n >= 1 =>
                   /\ \E s \in S : r.max_aadt = AadtOf(s)
                   /\ \A s \in S : AadtOf(s) <= r.max_aadt
                   /\ r.median_aadt =
                          Rat(KthSmallest(S, (n + 1) \div 2) + KthSmallest(S, (n + 2) \div 2), 2)
                   /\ r.p90_aadt =
                          (IF lo + 2 > n THEN FromInt(KthSmallest(S, n))
                           ELSE RatAdd(FromInt(KthSmallest(S, lo + 1)),
                                       RatMul(fr, FromInt(KthSmallest(S, lo + 2)
                                                          - KthSmallest(S, lo + 1)))))
                   /\ RatLE(r.median_aadt, r.p90_aadt)
                   /\ RatLE(r.p90_aadt, FromInt(r.max_aadt))

\* two segments of different aadt are matched by a route point that hits
\* several indexed points of each
AggregatesWitness ==
    /\ pc = "matched"
    /\ results[1].n_segments = 2
    /\ results[1].max_aadt = 30000
    /\ results[1].median_aadt = FromInt(20000)
    /\ Cardinality(indices_log[1][1]) > 2

\* C23: once the cache file exists it is never written again and no request
\* is made: load_penndot_data returns its content.  The cache file is
\* written in the step in which the loop of the fetch ends, with the list
\* that this load returns, so a later load returns that same list.
CacheThenFetch ==
    [][/\ cache_file # Absent =>
              /\ cache_file' = cache_file
              /\ pc' # "fetching"
              /\ pc = "load" => features' = cache_file[2] /\ pc' = "start"
       /\ (cache_file = Absent /\ cache_file' # Absent) =>
              /\ pc = "fetching"
              /\ pc' = "start"
              /\ features' = all_features'
              /\ cache_file' = Val(features')]_vars

\* a later run has loaded the two records that an earlier run fetched and
\* cached
CacheThenFetchWitness ==
    /\ run >= 2
    /\ pc = "start"
    /\ console = <<"Loading cached data">>
    /\ features = <<Record(1), Record(2)>>
    /\ cache_file = Val(features)

----------------------------------------------------------------------------
(* Properties of the segments and of the index.                            *)

\* C24: every segment returned by parse_penndot_segments has a length > 0,
\* whatever SEG_LNGTH_FEET is (absent, null and zero included).
SegmentLengthPositive ==
    \A i \in 1..Len(segments) : segments[i].length_ft > 0

\* the number of indexed points of the segments before segment s (index
\* from 0)
PointsBefore(s) == SumOver(1..s, [m \in 1..s |-> Len(DensePoints(m))])

\* C25: coords and seg_indices have one entry per densified point of every
\* segment, segment after segment: the entries of segment s are the
\* projections of densify_segment(segments[s].points, DENSIFY_SPACING_M) in
\* order, each tagged s, and every tag is in [0, len(segments)).
IndexIsDensifiedSegments ==
    pc \in {"indexed", "matched"} =>
        /\ Len(coords) = Len(seg_indices)
        /\ Len(coords) = PointsBefore(Len(segments))
        /\ \A k \in 1..Len(seg_indices) :
               seg_indices[k] >= 0 /\ seg_indices[k] < Len(segments)
        /\ \A s \in 0..(Len(segments) - 1) :
               /\ Cardinality({k \in 1..Len(seg_indices) : seg_indices[k] = s})
                      = Len(DensePoints(s + 1))
               /\ \A j \in 1..Len(DensePoints(s + 1)) :
                      LET k == PointsBefore(s) + j
                          p == DensePoints(s + 1)[j]
                      IN  /\ seg_indices[k] = s
                          /\ coords[k] = to_local_meters(p[1], p[2])

\* two segments are indexed, the second with more points than it has raw
\* points
IndexIsDensifiedWitness ==
    /\ pc = "indexed"
    /\ Len(segments) = 2
    /\ Len(DensePoints(2)) > Len(segments[2].points)
    /\ seg_indices[Len(seg_indices)] = 1

----------------------------------------------------------------------------
(* Coverage of the segments by their index points: segments with long      *)
(* edges and with several paths, and route points on and off the edges.    *)

\* Geometries in Web Mercator units (x, y): GeoLong runs 96 m north from the
\* origin; GeoTwoPaths has two paths of 48 m running north, 96 m apart.
GeoLong     == << <<<<0, 0>>, <<0, 2>>>> >>
GeoTwoPaths == << <<<<0, 0>>, <<0, 1>>>>, <<<<2, 0>>, <<2, 1>>>> >>

CoverFeatures ==
    {Feature(Val(10000), Val(100), None, Val(g)) : g \in {GeoLong, GeoTwoPaths, GeoCorner}}

\* Route points (lat, lon), in grid units: the middle of GeoLong; 14 m north
\* of the origin; the middle of the second path of GeoTwoPaths; far from
\* every geometry.
CoverRoutePoints ==
    {<<FromInt(12), FromInt(0)>>, <<Rat(7, 2), FromInt(0)>>,
     <<FromInt(6), FromInt(32)>>, <<FromInt(40), FromInt(40)>>}

InitCover ==
    InitOverlay(SeqUpTo(CoverFeatures, MaxFeatures),
                {[r \in {1} |-> q] : q \in Polylines(CoverRoutePoints, MaxRoutePts)})

SpecCover == InitCover /\ [][NextOverlay]_vars

\* the number of equal parts in which an edge is cut to sample its locations
EdgeSamples == 8

\* the location at fraction t of the way from a to b
Along(a, b, t) ==
    <<RatAdd(a[1], RatMul(t, RatSub(b[1], a[1]))),
      RatAdd(a[2], RatMul(t, RatSub(b[2], a[2])))>>

\* p lies on the edge from a to b
OnEdge(p, a, b) ==
    LET u1  == RatSub(p[1], a[1])
        u2  == RatSub(p[2], a[2])
        v1  == RatSub(b[1], a[1])
        v2  == RatSub(b[2], a[2])
        dot == RatAdd(RatMul(u1, v1), RatMul(u2, v2))
    IN  /\ RatMul(u1, v2) = RatMul(u2, v1)
        /\ RatLE(FromInt(0), dot)
        /\ RatLE(dot, RatAdd(RatMul(v1, v1), RatMul(v2, v2)))

\* p lies on the polyline of the raw points pts
OnPolyline(p, pts) ==
    \E e \in 1..Len(pts) :
        \/ p = pts[e]
        \/ e < Len(pts) /\ OnEdge(p, pts[e], pts[e + 1])

\* the positions in the index of the points of segment s (index from 1)
IndexPointsOf(s) == {k \in 1..Len(seg_indices) : seg_indices[k] = s - 1}

\* C26: with spacing 15 and buffer 30, every location on an edge between two
\* consecutive raw points of a segment (sampled at every 1/EdgeSamples of the
\* edge) is within BUFFER_METERS of an index point of that segment, and a
\* route point on the polyline of a segment hits and has that segment in
\* the matched set of its route.
EdgesCovered ==
    pc \in {"indexed", "matched"} =>
        /\ \A s \in 1..Len(segments) :
               LET pts == segments[s].points
               IN  \A e \in 1..(Len(pts) - 1) : \A t \in 0..EdgeSamples :
                       \E k \in IndexPointsOf(s) :
                           RatLE(IndexDist2(k, Along(pts[e], pts[e + 1], Rat(t, EdgeSamples))),
                                 Buffer2)
        /\ \A i \in 1..Len(results) : \A j \in 1..Len(RouteOf(i)) :
               \A s \in 1..Len(segments) :
                   OnPolyline(RouteOf(i)[j], segments[s].points) =>
                       /\ j \in HittingPoints(i)
                       /\ (s - 1) \in matched_log[i]

\* a route point on an edge, farther than BUFFER_METERS from every raw point
\* of the segment, and the segment is matched
EdgesCoveredWitness ==
    /\ pc = "matched"
    /\ Len(segments) >= 1
    /\ Len(results) = 1
    /\ LET pts == segments[1].points
           p   == RouteOf(1)[1]
       IN  /\ Len(pts) = 2
           /\ OnEdge(p, pts[1], pts[2])
           /\ \A e \in 1..2 : RatLT(Buffer2, PlanarDist2(pts[e], p))
           /\ 0 \in matched_log[1]

\* the paths of the geometry of features[s], each a list of (x, y)
PathsOf(s) == features[s]["geometry"][2]["paths"][2]

\* the points of a path in local meters
PathM(path) ==
    [e \in 1..Len(path) |->
        LET w == web_mercator_to_wgs84(path[e][1], path[e][2])
        IN  to_local_meters(w[1], w[2])]

\* C27: every index point of a segment lies on an edge between two
\* consecutive points of one of the paths of its geometry (or is the single
\* point of a path): none lies between the last point of one path and the
\* first point of the next.
IndexPointsOnPaths ==
    (pc \in {"indexed", "matched"} /\ Len(segments) = Len(features)) =>
        \A s \in 1..Len(segments) : \A k \in IndexPointsOf(s) :
            \E n \in 1..Len(PathsOf(s)) : OnPolyline(coords[k], PathM(PathsOf(s)[n]))

----------------------------------------------------------------------------
(* Further properties of the result records.                               *)

\* C28: when a matched segment of a route reports a truck percentage,
\* avg_truck_pct is a number (its division is by a sum that is not zero)
\* between the least and the greatest reported percentage, whatever the
\* lengths of the segments are.
AvgTruckWithinReported ==
    \A i \in 1..Len(results) :
        Reporting(i) # {} =>
            LET a == results[i].avg_truck_pct
            IN  /\ a # None
                /\ a[2][2] # 0
                /\ \E s \in Reporting(i) : RatLE(FromInt(segments[s + 1].truck_pct[2]), a[2])
                /\ \E s \in Reporting(i) : RatLE(a[2], FromInt(segments[s + 1].truck_pct[2]))

\* Records with a missing, zero, negative or positive AADT and a zero or
\* positive length, all on GeoNorth; one route at the origin, far from it, or both.
LogFeatures ==
    {Feature(a, l, None, Val(GeoNorth)) :
        a \in {None, Val(0), Val(-5), Val(10000), Val(30000)},
        l \in {Val(0), Val(100)}}

LogRoutePoints == {<<FromInt(0), FromInt(0)>>, <<FromInt(40), FromInt(40)>>}

InitLog ==
    InitOverlay(SeqUpTo(LogFeatures, MaxFeatures),
                {[r \in {1} |-> q] : q \in Polylines(LogRoutePoints, MaxRoutePts)})

SpecLog == InitLog /\ [][NextOverlay \/ WriteToDb]_vars

\* C29: a result has weighted_aadt > 0 and max_aadt > 0 exactly when
\* n_segments >= 1, which is exactly when match_rate > 0; so every row of
\* route_traffic with match_rate > 0 holds a weighted_aadt > 0, of which the
\* logarithm is defined.
PositiveAadtIffMatched ==
    /\ \A i \in 1..Len(results) :
           LET r == results[i]
           IN  /\ (RatLT(FromInt(0), r.weighted_aadt) /\ r.max_aadt > 0)
                      <=> r.n_segments >= 1
               /\ (RatLT(FromInt(0), r.weighted_aadt) \/ r.max_aadt > 0)
                      => r.n_segments >= 1
               /\ r.n_segments >= 1 <=> RatLT(FromInt(0), r.match_rate)
    /\ pc = "written" =>
           \A i \in 1..Len(TrafficRows) :
               LET row == TrafficRows[i]
               IN  (row.match_rate # NULL /\ RatLT(FromInt(0), row.match_rate[2])) =>
                       /\ row.weighted_aadt # NULL
                       /\ RatLT(FromInt(0), row.weighted_aadt[2])

\* a record with no valid AADT was skipped, and the row of a route matching
\* a segment of length 0 was written
PositiveAadtWitness ==
    /\ pc = "written"
    /\ skipped >= 1
    /\ Len(TrafficRows) = 1
    /\ TrafficRows[1].n_segments = Val(1)
    /\ TrafficRows[1].total_length_ft = Val(0)
    /\ TrafficRows[1].weighted_aadt = Val(FromInt(10000))
    /\ TrafficRows[1].match_rate = Val(<<1, 2>>)

----------------------------------------------------------------------------
(* The routes of the GTFS files, matched.                                  *)

\* Rows of shapes.txt at the origin, at a point that rounds to it, and far
\* from every segment.
MatchShapeRows ==
    {[shape_id |-> sid, pt |-> p] :
        sid \in {"A", "B"},
        p \in {<<FromInt(0), FromInt(0)>>, <<Rat(1, 8), FromInt(0)>>,
               <<FromInt(40), FromInt(40)>>}}

\* main has parsed one segment on GeoNorth and is about to read the GTFS files.
InitGtfsMatch ==
    /\ trips \in TripTables
    /\ shapes \in SeqUpTo(MatchShapeRows, MaxShapeRows)
    /\ features = <<Feature(Val(10000), Val(100), None, Val(GeoNorth))>>
    /\ route_points = <<>>
    /\ segments = parse_penndot_segments(features).segments
    /\ skipped = 0
    /\ coords = <<>>
    /\ seg_indices = <<>>
    /\ results = <<>>
    /\ indices_log = <<>>
    /\ matched_log = <<>>
    /\ pc = "gtfs"
    /\ db = FreshDb
    /\ run = 1
    /\ FetchIdle
    /\ cache_file = Val(features)
    /\ console = <<"Loading cached data">>
    /\ DensifyIdle

SpecGtfsMatch == InitGtfsMatch /\ [][LoadGtfsRoutes \/ BuildKDTree \/ MatchRoute]_vars

\* C30: every route that load_gtfs_routes returns has at least one point
\* (it is a route with a row in shapes.txt), so every result has
\* n_route_points >= 1 and its match_rate is the number of hitting points
\* divided by n_route_points, never the value set for a route of no point.
RoutesHavePoints ==
    /\ pc # "gtfs" =>
           \A r \in DOMAIN route_points :
               /\ Len(route_points[r]) >= 1
               /\ RowsOfRoute(r) # {}
    /\ \A i \in 1..Len(results) :
           LET r == results[i]
           IN  /\ r.n_route_points >= 1
               /\ r.n_route_points = Len(RouteOf(i))
               /\ r.match_rate = Rat(Cardinality(HittingPoints(i)), r.n_route_points)

\* a route of trips.txt has no row in shapes.txt and no polyline; another
\* has two rows and, after deduplication, one point, which was matched
RoutesHavePointsWitness ==
    /\ pc = "matched"
    /\ \E i \in 1..Len(trips) : trips[i].route_id \notin DOMAIN route_points
    /\ Len(results) = 1
    /\ results[1].n_route_points = 1
    /\ Cardinality(RowsOfRoute(results[1].route_id)) = 2
    /\ results[1].match_rate = FromInt(1)

====
